---------------------------- MODULE Spec2Model ----------------------------
(***************************************************************************)
(* A model of asa_objectified/asa_objects.py: the ASA network and service  *)
(* objects (NetworkObject, TcpObject, UdpObject, IcmpObject), their        *)
(* setters, name generation and CLI rendering.                             *)
(*                                                                         *)
(* One object is alive at a time.  cls is its class ("none" before a       *)
(* constructor has succeeded), self holds its instance attributes, call is *)
(* the last operation invoked with its argument, and ret is what that      *)
(* operation returned or raised.                                           *)
(***************************************************************************)
EXTENDS Integers, Sequences, FiniteSets, TLC

VARIABLES cls, self, call, ret

vars == <<cls, self, call, ret>>

----------------------------------------------------------------------------
(* Python values.  Every value is a record of the same shape, so that any  *)
(* two values can be compared.                                             *)

PyNone == [k |-> "none", n |-> 0, s |-> ""]

PyInt(i) == [k |-> "int", n |-> i, s |-> ""]

PyStr(t) == [k |-> "str", n |-> 0, s |-> t]

\* a member of an Enum class, by its member name
PyEnum(m) == [k |-> "enum", n |-> 0, s |-> m]

\* a bound method object, by the method's name
PyMethod(m) == [k |-> "method", n |-> 0, s |-> m]

PyBool(b) == [k |-> "bool", n |-> IF b THEN 1 ELSE 0, s |-> ""]

\* a list object; its items are carried beside it
PyList == [k |-> "list", n |-> 0, s |-> ""]

\* bool(v): None, 0 and '' are falsy
Truthy(v) ==
    CASE v.k = "none" -> FALSE
      [] v.k = "int"  -> v.n # 0
      [] v.k = "bool" -> v.n # 0
      [] v.k = "str"  -> v.s # ""
      [] OTHER        -> TRUE

\* str(v) / f'{v}' for the values that get formatted
Str(v) ==
    CASE v.k = "none" -> "None"
      [] v.k = "int"  -> ToString(v.n)
      [] OTHER        -> v.s

LowerChars == "abcdefghijklmnopqrstuvwxyz"

UpperChars == "ABCDEFGHIJKLMNOPQRSTUVWXYZ"

UpperChar(c) ==
    IF \E i \in 1..26 : SubSeq(LowerChars, i, i) = c
    THEN LET i == CHOOSE j \in 1..26 : SubSeq(LowerChars, j, j) = c
         IN  SubSeq(UpperChars, i, i)
    ELSE c

RECURSIVE Upper(_)
\* str.upper()
Upper(t) ==
    IF t = "" THEN ""
    ELSE UpperChar(SubSeq(t, 1, 1)) \o Upper(Tail(t))

Digits == "0123456789"

IsDigit(c) == \E i \in 1..10 : SubSeq(Digits, i, i) = c

DigitVal(c) == (CHOOSE i \in 1..10 : SubSeq(Digits, i, i) = c) - 1

\* str.isnumeric(): non-empty and every character a digit
IsNumeric(t) ==
    /\ t # ""
    /\ \A i \in 1..Len(t) : IsDigit(SubSeq(t, i, i))

RECURSIVE ParseDigits(_, _)
ParseDigits(t, acc) ==
    IF t = "" THEN acc
    ELSE ParseDigits(Tail(t), 10 * acc + DigitVal(SubSeq(t, 1, 1)))

\* int(v) for an int or a string of digits
Int_(v) == IF v.k = "int" THEN v.n ELSE ParseDigits(v.s, 0)

\* whether sub occurs in t
Contains(t, sub) ==
    \E i \in 1..(Len(t) - Len(sub) + 1) : SubSeq(t, i, i + Len(sub) - 1) = sub

\* the outcome of a call: the object after it, the exception raised ("" for
\* none), the value returned, and the items when that value is a list
Outcome(o, exc, val, items) == [self |-> o, exc |-> exc, val |-> val, items |-> items]

Return(o, val) == Outcome(o, "", val, <<>>)

Raise(o, exc) == Outcome(o, exc, PyNone, <<>>)

NoObject == [none |-> TRUE]

----------------------------------------------------------------------------
(* _ServiceObject.PortSelecterType                                         *)

PortSelecterType ==
    [SINGLE |-> "eq", RANGE |-> "range", LESS_THAN |-> "lt",
     GREATER_THAN |-> "gt", NOT_EQUALS |-> "neq"]

\* member.value
EnumValue(m) == PortSelecterType[m.s]

\* the keyword arguments a constructor is called with beyond its own
\* parameters are a TypeError when the signature does not declare them
BindError(params, kw) == ~(kw \subseteq params)

----------------------------------------------------------------------------
(* _ServiceObject                                                          *)

Svc_name_setter(o, name) == Return([o EXCEPT !._name = name], PyNone)

\* run f on the object a call left behind, unless the call raised
Then(out, f(_)) == IF out.exc # "" THEN out ELSE f(out.self)

\* an attribute no assignment has created yet
Unset == [k |-> "unset", n |-> 0, s |-> ""]

----------------------------------------------------------------------------
(* _TcpOrUdpObject, TcpObject, UdpObject                                   *)

\* a signature that also takes the ICMP keywords
TcpInitParams_with_icmp ==
    {"source_port_selecter_type", "source_port", "source_end_port",
     "dest_port_selecter_type", "dest_port", "dest_end_port", "name",
     "icmp_type", "icmp_code"}

TcpInitParams ==
    {"source_port_selecter_type", "source_port", "source_end_port",
     "dest_port_selecter_type", "dest_port", "dest_end_port", "name"}

_OBJECT_TYPE(c) == IF c = "TcpObject" THEN "tcp" ELSE "udp"

\* _check_port with the upper limit itself refused
_check_port_below_limit(o, port) ==
    IF port = PyNone THEN Return(o, PyBool(FALSE))
    ELSE IF ~(0 <= Int_(port) /\ Int_(port) < 65535)
    THEN Raise(o, "ValueError: Port value is out of range")
    ELSE Return(o, PyBool(TRUE))

_check_port(o, port) ==
    IF port = PyNone THEN Return(o, PyBool(FALSE))
    ELSE IF ~(0 <= Int_(port) /\ Int_(port) <= 65535)
    THEN Raise(o, "ValueError: Port value is out of range")
    ELSE Return(o, PyBool(TRUE))

\* the property getters
source_port(o) == o._source_port

source_end_port(o) == o._source_end_port

dest_port(o) == o._dest_port

\* the property named dest_end_port is built by @dest_port.setter: it keeps
\* dest_port's getter and takes the function below as its setter
dest_end_port(o) == dest_port(o)

\* the property setters
source_port_setter(o, port) ==
    Then(_check_port(o, port),
         LAMBDA x : Return([x EXCEPT !._source_port = port], PyNone))

source_end_port_setter(o, port) ==
    Then(_check_port(o, port),
         LAMBDA x : Return([x EXCEPT !._source_end_port = port], PyNone))

dest_port_setter(o, port) ==
    Then(_check_port(o, port),
         LAMBDA x : Return([x EXCEPT !._dest_port = port], PyNone))

dest_end_port_setter(o, port) ==
    Then(_check_port(o, port),
         LAMBDA x : Return([x EXCEPT !._dest_end_port = port], PyNone))

\* plain attributes
source_port_selecter_type_setter(o, t) ==
    Return([o EXCEPT !.source_port_selecter_type = t], PyNone)

dest_port_selecter_type_setter(o, t) ==
    Return([o EXCEPT !.dest_port_selecter_type = t], PyNone)

Tcp_generate_name(c, o) ==
    LET base == "SVC_" \o Upper(_OBJECT_TYPE(c))
        st == o.source_port_selecter_type
        dt == o.dest_port_selecter_type
        src == IF st = PyNone THEN ""
               ELSE IF st = PyEnum("RANGE")
               THEN "_SRC_RANGE_" \o Str(source_port(o)) \o "-" \o Str(source_end_port(o))
               ELSE "_SRC_" \o Upper(EnumValue(st)) \o "_" \o Str(source_port(o))
        dst == IF dt = PyNone THEN ""
               ELSE IF dt = PyEnum("RANGE")
               THEN "_DEST_RANGE_" \o Str(dest_port(o)) \o "-" \o Str(dest_end_port(o))
               ELSE "_DEST_" \o Upper(EnumValue(dt)) \o "_" \o Str(dest_port(o))
        name == PyStr(base \o src \o dst)
    IN  Return([o EXCEPT !._name = name], name)

\* the source clause of cli_attributes, or the assertion that fails
Tcp_source_clause(o) ==
    LET st == o.source_port_selecter_type
    IN  IF ~Truthy(st) THEN Return(o, PyStr(""))
        ELSE IF st = PyEnum("RANGE")
        THEN IF ~(Truthy(source_port(o)) /\ Truthy(source_end_port(o)))
             THEN Raise(o, "AssertionError: Range starting or ending port not defined")
             ELSE Return(o, PyStr(" source " \o EnumValue(st) \o " " \o Str(source_port(o))
                                  \o " " \o Str(source_end_port(o))))
        ELSE IF ~Truthy(source_port(o))
             THEN Raise(o, "AssertionError: Source port not defined")
             ELSE Return(o, PyStr(" source " \o EnumValue(st) \o " " \o Str(source_port(o))))

\* the destination clause of cli_attributes, or the assertion that fails
Tcp_dest_clause(o) ==
    LET dt == o.dest_port_selecter_type
    IN  IF ~Truthy(dt) THEN Return(o, PyStr(""))
        ELSE IF dt = PyEnum("RANGE")
        THEN IF ~(Truthy(dest_port(o)) /\ Truthy(dest_end_port(o)))
             THEN Raise(o, "AssertionError: Range starting or ending port not defined")
             ELSE Return(o, PyStr(" source " \o EnumValue(dt) \o " " \o Str(dest_port(o))
                                  \o " " \o Str(dest_end_port(o))))
        ELSE IF ~Truthy(dest_port(o))
             THEN Raise(o, "AssertionError: Destination port not defined")
             ELSE Return(o, PyStr(" destination " \o EnumValue(dt) \o " " \o Str(dest_port(o))))

Tcp_cli_attributes(c, o) ==
    LET source == Tcp_source_clause(o)
        dest == Tcp_dest_clause(o)
    IN  IF source.exc # "" THEN source
        ELSE IF dest.exc # "" THEN dest
        ELSE Return(o, PyStr("service " \o _OBJECT_TYPE(c) \o source.val.s \o dest.val.s))

TcpBlank ==
    [_name |-> Unset, source_port_selecter_type |-> Unset, _source_port |-> Unset,
     _source_end_port |-> Unset, dest_port_selecter_type |-> Unset,
     _dest_port |-> Unset, _dest_end_port |-> Unset]

\* a constructor that raises leaves no object behind
Construct(out) == IF out.exc # "" THEN Raise(NoObject, out.exc) ELSE Return(out.self, PyNone)

Tcp__init__(kw, name, st, sp, sep, dt, dp, dep) ==
    IF BindError(TcpInitParams, kw)
    THEN Raise(NoObject, "TypeError: __init__() got an unexpected keyword argument")
    ELSE Construct(
           Then(Then(Then(Then(Then(Then(Svc_name_setter(TcpBlank, name),
             LAMBDA x : source_port_selecter_type_setter(x, st)),
             LAMBDA x : source_port_setter(x, sp)),
             LAMBDA x : source_end_port_setter(x, sep)),
             LAMBDA x : dest_port_selecter_type_setter(x, dt)),
             LAMBDA x : dest_port_setter(x, dp)),
             LAMBDA x : dest_end_port_setter(x, dep)))

----------------------------------------------------------------------------
(* IcmpObject                                                              *)

IcmpInitParams == {"name", "icmp_type", "icmp_code"}

_verify_icmp_code(o, value) ==
    IF value = PyNone
    THEN Raise(o, "TypeError: int() argument must be a string, a bytes-like object or a real number, not 'NoneType'")
    ELSE IF 1 <= Int_(value) /\ Int_(value) <= 255 THEN Return(o, PyBool(TRUE))
    ELSE Raise(o, "ValueError: The given ICMP code is invalid")

_verify_icmp_type(o, value) ==
    IF value.k = "str" /\ ~IsNumeric(value.s) THEN Return(o, PyBool(TRUE))
    ELSE IF ~Truthy(value) THEN Raise(o, "ValueError: ICMP Type not set")
    ELSE IF 0 <= Int_(value) /\ Int_(value) <= 255 THEN Return(o, PyBool(TRUE))
    ELSE Raise(o, "ValueError: The given ICMP type is invalid")

icmp_code(o) == o._icmp_code

icmp_type(o) == o._icmp_type

icmp_code_setter(o, value) ==
    IF value = PyNone THEN Return([o EXCEPT !._icmp_code = PyNone], PyNone)
    ELSE Then(_verify_icmp_code(o, value),
              LAMBDA x : Return([x EXCEPT !._icmp_code = value], PyNone))

icmp_type_setter(o, value) ==
    IF value = PyNone THEN Return([o EXCEPT !._icmp_type = PyNone], PyNone)
    ELSE Then(_verify_icmp_type(o, value),
              LAMBDA x : Return([x EXCEPT !._icmp_type = value], PyNone))

\* generate_name leaving the name in the case it was built in
Icmp_generate_name_as_built(o) ==
    IF ~Truthy(icmp_type(o))
    THEN Raise(o, "AssertionError: ICMP type attribute unset during name generation")
    ELSE LET head == "SVC_ICMP_TYPE_" \o Str(icmp_type(o))
             name == IF Truthy(icmp_code(o))
                     THEN head \o "_CODE_" \o Str(icmp_code(o))
                     ELSE head
         IN  Return([o EXCEPT !._name = PyStr(name)], PyStr(name))

Icmp_generate_name(o) ==
    IF ~Truthy(icmp_type(o))
    THEN Raise(o, "AssertionError: ICMP type attribute unset during name generation")
    ELSE LET head == "SVC_ICMP_TYPE_" \o Str(icmp_type(o))
             name == IF Truthy(icmp_code(o))
                     THEN head \o "_CODE_" \o Str(icmp_code(o))
                     ELSE head
         IN  Return([o EXCEPT !._name = PyStr(Upper(name))], PyStr(Upper(name)))

Icmp_cli_attributes(o) ==
    Then(_verify_icmp_type(o, icmp_type(o)), LAMBDA x :
    Then(_verify_icmp_code(x, x._icmp_code), LAMBDA y :
         LET c == " service icmp " \o Str(icmp_type(y))
         IN  IF Truthy(icmp_code(y))
             THEN Return(y, PyStr(c \o " " \o Str(icmp_code(y))))
             ELSE Return(y, PyStr(c))))

IcmpBlank == [_name |-> Unset, _icmp_code |-> Unset, _icmp_type |-> Unset]

Icmp__init__(kw, name, type, code) ==
    IF BindError(IcmpInitParams, kw)
    THEN Raise(NoObject, "TypeError: __init__() got an unexpected keyword argument")
    ELSE Construct(
           Then(Then(Svc_name_setter(IcmpBlank, name),
             LAMBDA x : icmp_code_setter(x, code)),
             LAMBDA x : icmp_type_setter(x, type)))

----------------------------------------------------------------------------
(* _ServiceObject: the methods the variants inherit                        *)

Svc_generate_name(c, o) ==
    IF c = "IcmpObject" THEN Icmp_generate_name(o) ELSE Tcp_generate_name(c, o)

Svc_cli_attributes(c, o) ==
    IF c = "IcmpObject" THEN Icmp_cli_attributes(o) ELSE Tcp_cli_attributes(c, o)

\* a name getter that generates the name on every read
Svc_name_uncached(c, o) == Svc_generate_name(c, o)

\* the name property's getter
Svc_name(c, o) ==
    IF Truthy(o._name) THEN Return(o, o._name) ELSE Svc_generate_name(c, o)

Svc_cli_definition(c, o) ==
    LET first == Svc_name(c, o)
        named == IF first.exc = "" /\ ~Truthy(first.val)
                 THEN Svc_generate_name(c, first.self)
                 ELSE first
    IN  Then(named, LAMBDA x :
             LET r == Svc_name(c, x)
             IN  IF r.exc # "" THEN r
                 ELSE Return(r.self, PyStr("object service " \o Str(r.val))))

Svc_cli_full(c, o) ==
    LET d == Svc_cli_definition(c, o)
    IN  Then(d, LAMBDA x :
             LET a == Svc_cli_attributes(c, x)
             IN  IF a.exc # "" THEN a
                 ELSE Outcome(a.self, "", PyList, <<d.val, a.val, PyStr("!")>>))

----------------------------------------------------------------------------
(* ipaddress.IPv4Network, as far as NetworkObject uses it: what the        *)
(* library answers for the address strings the operations are tried with.  *)
(* A network value carries the prefix length in n and the dotted network   *)
(* address in s.                                                           *)

PyNet(address, prefixlen) == [k |-> "net", n |-> prefixlen, s |-> address]

\* the strings IPv4Network accepts, with the network each one yields
Networks ==
    [t \in {"10.1.1.5", "10.1.1.0", "10.1.1.0/24", "10.1.1.0/255.255.255.0"} |->
        CASE t = "10.1.1.5" -> PyNet("10.1.1.5", 32)
          [] t = "10.1.1.0" -> PyNet("10.1.1.0", 32)
          [] OTHER          -> PyNet("10.1.1.0", 24)]

\* the strings it refuses because the address has bits set beyond the mask
HostBitsSet == {"10.1.1.5/24", "10.1.1.5/255.255.255.0"}

\* IPv4Network(v), strict
IPv4Network(o, v) ==
    IF v.k = "str" /\ v.s \in DOMAIN Networks THEN Return(o, Networks[v.s])
    ELSE IF v.k = "str" /\ v.s \in HostBitsSet THEN Raise(o, "ValueError: has host bits set")
    ELSE Raise(o, "AddressValueError")

\* network.netmask, formatted
Netmask(net) == IF net.n = 32 THEN "255.255.255.255" ELSE "255.255.255.0"

\* the address and mask strings the operations are tried with
Addresses == {PyNone} \cup {PyStr(t) : t \in {"10.1.1.5", "10.1.1.0"}}

Netmasks == {PyNone} \cup {PyStr(t) : t \in {"255.255.255.0"}}

CIDRs == {PyNone} \cup {PyStr(t) : t \in {"24"}}

----------------------------------------------------------------------------
(* NetworkObject                                                           *)

\* a member of NetworkObject.ObjectType
ObjectType(m) == [k |-> "enum", n |-> 0, s |-> "ObjectType." \o m]

NetInitParams ==
    {"ob_type", "ip", "netmask", "description", "CIDR", "name", "fqdn", "end_ip"}

Net_generate_name(o) ==
    LET named(t) == Return([o EXCEPT !.name = PyStr(t)], PyStr(t))
    IN  IF o.type = ObjectType("HOST") THEN named("HOST_" \o o.ip.s)
        ELSE IF o.type = ObjectType("NETWORK")
        THEN named("NET_" \o o.ip.s \o "_" \o ToString(o.ip.n))
        ELSE IF o.type = ObjectType("RANGE")
        THEN named("RANGE_" \o o.ip.s \o "-" \o o.end_ip.s)
        ELSE IF o.type = ObjectType("FQDN") THEN named("FQDN_" \o Str(o.fqdn))
        ELSE Raise(o, "ValueError: NetworkObject not set to type when generating name.")

\* the "if not self.name: self.generate_name()" the initializers end with
Net_name_if_unset(o) ==
    IF ~Truthy(o.name) THEN Net_generate_name(o) ELSE Return(o, PyNone)

init_fqdn_object(o, fqdn) ==
    Then(Net_name_if_unset([o EXCEPT !.fqdn = fqdn, !.type = ObjectType("FQDN")]),
         LAMBDA x : Return(x, PyNone))

init_range_object(o, ip, end_ip) ==
    LET a == IPv4Network(o, ip)
    IN  IF a.exc # "" THEN a
        ELSE LET o1 == [o EXCEPT !.ip = a.val]
                 b == IPv4Network(o1, end_ip)
             IN  IF b.exc # "" THEN b
                 ELSE Then(Net_name_if_unset(
                             [o1 EXCEPT !.end_ip = b.val, !.type = ObjectType("RANGE")]),
                           LAMBDA x : Return(x, PyNone))

init_host_or_net_object(o, ip, netmask, CIDR) ==
    LET net == IF Truthy(netmask) THEN IPv4Network(o, PyStr(Str(ip) \o "/" \o Str(netmask)))
               ELSE IF Truthy(CIDR) THEN IPv4Network(o, PyStr(Str(ip) \o "/" \o Str(CIDR)))
               ELSE IPv4Network(o, ip)
    IN  IF net.exc # "" THEN net
        ELSE LET t == IF net.val.n = 32 THEN ObjectType("HOST") ELSE ObjectType("NETWORK")
             IN  Then(Net_name_if_unset([o EXCEPT !.ip = net.val, !.type = t]),
                      LAMBDA x : Return(x, x.ip))

Net_cli_definition(o) ==
    Then(Net_name_if_unset(o),
         LAMBDA x : Return(x, PyStr("object network " \o Str(x.name))))

Net_cli_attributes(o) ==
    IF ~Truthy(o.type) THEN Raise(o, "ValueError: No value set for object type.")
    ELSE IF o.type = ObjectType("HOST") THEN Return(o, PyStr(" host " \o o.ip.s))
    ELSE IF o.type = ObjectType("NETWORK")
    THEN Return(o, PyStr(" subnet " \o o.ip.s \o " " \o Netmask(o.ip)))
    ELSE IF o.type = ObjectType("RANGE")
    THEN Return(o, PyStr(" range " \o o.ip.s \o " " \o o.end_ip.s))
    ELSE IF o.type = ObjectType("FQDN") THEN Return(o, PyStr(" fqdn " \o Str(o.fqdn)))
    ELSE Raise(o, "ValueError: Invalid value set for object type.")

\* the list starts with the two bound methods themselves: neither is called
Net_cli_full(o) ==
    LET rule_text == <<PyMethod("cli_definition"), PyMethod("cli_attributes")>>
        described == IF Truthy(o.description)
                     THEN Append(rule_text, PyStr(" description " \o o.description.s))
                     ELSE rule_text
    IN  Outcome(o, "", PyList, Append(described, PyStr("!")))

NetBlank(description, name, ob_type) ==
    [description |-> description, name |-> name, type |-> ob_type,
     ip |-> Unset, end_ip |-> Unset, fqdn |-> Unset]

Net__init__(kw, ob_type, ip, netmask, description, CIDR, name, fqdn, end_ip) ==
    LET o == NetBlank(description, name, ob_type)
    IN  IF BindError(NetInitParams, kw)
        THEN Raise(NoObject, "TypeError: __init__() got an unexpected keyword argument")
        ELSE IF ~Truthy(ob_type) THEN Construct(Return(o, PyNone))
        ELSE IF ob_type \in {ObjectType("HOST"), ObjectType("NETWORK")}
        THEN Construct(init_host_or_net_object(o, ip, netmask, CIDR))
        ELSE IF ob_type = ObjectType("RANGE") THEN Construct(init_range_object(o, ip, end_ip))
        ELSE IF ob_type = ObjectType("FQDN") THEN Construct(init_fqdn_object(o, fqdn))
        ELSE Construct(Return(o, PyNone))

----------------------------------------------------------------------------
(* The state machine.                                                      *)

ServiceClasses == {"TcpObject", "UdpObject", "IcmpObject"}

TcpClasses == {"TcpObject", "UdpObject"}

NoCall == [op |-> "", on |-> "none", args |-> <<>>, kw |-> {}]

NoResult == [exc |-> "", val |-> PyNone, items |-> <<>>]

Init ==
    /\ cls = "none"
    /\ self = NoObject
    /\ call = NoCall
    /\ ret = NoResult

\* method op, called on the live object with arguments args, ends as out
Step(op, args, out) ==
    /\ cls' = cls
    /\ self' = out.self
    /\ call' = [op |-> op, on |-> cls, args |-> args, kw |-> {}]
    /\ ret' = [exc |-> out.exc, val |-> out.val, items |-> out.items]

\* class c's constructor, called with arguments args and the extra keywords
\* kw, ends as out
New(c, args, kw, out) ==
    /\ cls = "none"
    /\ cls' = IF out.exc = "" THEN c ELSE "none"
    /\ self' = out.self
    /\ call' = [op |-> "__init__", on |-> c, args |-> args, kw |-> kw]
    /\ ret' = [exc |-> out.exc, val |-> out.val, items |-> out.items]

TcpInit(c, kw, name, st, sp, sep, dt, dp, dep) ==
    /\ c \in TcpClasses
    /\ New(c, <<>>, kw, Tcp__init__(kw, name, st, sp, sep, dt, dp, dep))

SetSourcePort(port) ==
    /\ cls \in TcpClasses
    /\ Step("source_port.setter", <<port>>, source_port_setter(self, port))

SetSourceEndPort(port) ==
    /\ cls \in TcpClasses
    /\ Step("source_end_port.setter", <<port>>, source_end_port_setter(self, port))

SetDestPort(port) ==
    /\ cls \in TcpClasses
    /\ Step("dest_port.setter", <<port>>, dest_port_setter(self, port))

SetDestEndPort(port) ==
    /\ cls \in TcpClasses
    /\ Step("dest_end_port.setter", <<port>>, dest_end_port_setter(self, port))

SetSourceSelecter(t) ==
    /\ cls \in TcpClasses
    /\ Step("source_port_selecter_type.setter", <<t>>, source_port_selecter_type_setter(self, t))

SetDestSelecter(t) ==
    /\ cls \in TcpClasses
    /\ Step("dest_port_selecter_type.setter", <<t>>, dest_port_selecter_type_setter(self, t))

IcmpInit(kw, name, type, code) ==
    New("IcmpObject", <<name, type, code>>, kw, Icmp__init__(kw, name, type, code))

SetIcmpType(value) ==
    /\ cls = "IcmpObject"
    /\ Step("icmp_type.setter", <<value>>, icmp_type_setter(self, value))

SetIcmpCode(value) ==
    /\ cls = "IcmpObject"
    /\ Step("icmp_code.setter", <<value>>, icmp_code_setter(self, value))

ReadName ==
    /\ cls \in ServiceClasses
    /\ Step("name", <<>>, Svc_name(cls, self))

SetName(name) ==
    /\ cls \in ServiceClasses
    /\ Step("name.setter", <<name>>, Svc_name_setter(self, name))

GenerateName ==
    /\ cls \in ServiceClasses
    /\ Step("generate_name", <<>>, Svc_generate_name(cls, self))

CliDefinition ==
    /\ cls \in ServiceClasses
    /\ Step("cli_definition", <<>>, Svc_cli_definition(cls, self))

CliAttributes ==
    /\ cls \in ServiceClasses
    /\ Step("cli_attributes", <<>>, Svc_cli_attributes(cls, self))

CliFull ==
    /\ cls \in ServiceClasses
    /\ Step("cli_full", <<>>, Svc_cli_full(cls, self))

NetInit(kw, ob_type, ip, netmask, description, CIDR, name, fqdn, end_ip) ==
    New("NetworkObject", <<>>, kw,
        Net__init__(kw, ob_type, ip, netmask, description, CIDR, name, fqdn, end_ip))

NetInitFqdn(fqdn) ==
    /\ cls = "NetworkObject"
    /\ Step("init_fqdn_object", <<fqdn>>, init_fqdn_object(self, fqdn))

NetInitRange(ip, end_ip) ==
    /\ cls = "NetworkObject"
    /\ Step("init_range_object", <<ip, end_ip>>, init_range_object(self, ip, end_ip))

NetInitHostOrNet(ip, netmask, CIDR) ==
    /\ cls = "NetworkObject"
    /\ Step("init_host_or_net_object", <<ip, netmask, CIDR>>, init_host_or_net_object(self, ip, netmask, CIDR))

NetGenerateName ==
    /\ cls = "NetworkObject"
    /\ Step("generate_name", <<>>, Net_generate_name(self))

NetCliDefinition ==
    /\ cls = "NetworkObject"
    /\ Step("cli_definition", <<>>, Net_cli_definition(self))

NetCliAttributes ==
    /\ cls = "NetworkObject"
    /\ Step("cli_attributes", <<>>, Net_cli_attributes(self))

NetCliFull ==
    /\ cls = "NetworkObject"
    /\ Step("cli_full", <<>>, Net_cli_full(self))

----------------------------------------------------------------------------
(* The inputs the operations are tried with.                               *)

\* integers sampled upward from the low end of a range
MaxLow == 1

Ints(S) == {PyInt(i) : i \in S}

Strs(S) == {PyStr(t) : t \in S}

Selecters == {PyNone} \cup {PyEnum(m) : m \in DOMAIN PortSelecterType}

\* start ports: unset, both sides of both limits, a usual port
StartPorts == {PyNone} \cup Ints({-1, 0, 80, 65536})

\* end ports: the same with the upper limit itself
EndPorts == {PyNone} \cup Ints({-1, 0, 65535, 65536})

Names == {PyNone, PyStr(""), PyStr("Stu")}

\* keywords of another variant, passed to a constructor
ForeignKw == SUBSET {"icmp_type", "icmp_code"}

IcmpTypes ==
    {PyNone} \cup Ints({-1, 255, 256} \cup 0..MaxLow)
             \cup Strs({"echo", "", "-1", "0", "255", "256"})

IcmpCodes == {PyNone} \cup Ints({0, 40, 255, 256} \cup 1..MaxLow)

ObjectTypes == {PyNone} \cup {ObjectType(m) : m \in {"RANGE", "HOST", "NETWORK", "FQDN"}}

Fqdns == {PyNone} \cup Strs({"a.example"})

Descriptions == {PyNone, PyStr(""), PyStr("core")}

----------------------------------------------------------------------------
(* TcpObject and UdpObject: construction, the setters and rendering of the *)
(* attribute line.                                                         *)

NextTcp ==
    \/ /\ cls = "none"
       /\ \E c \in TcpClasses, kw \in ForeignKw, name \in {PyNone, PyStr("Stu")},
          st \in Selecters, sp \in StartPorts, sep \in EndPorts,
          dt \in Selecters, dp \in StartPorts, dep \in EndPorts :
          TcpInit(c, kw, name, st, sp, sep, dt, dp, dep)
    \/ \E port \in StartPorts : SetSourcePort(port)
    \/ \E port \in EndPorts : SetSourceEndPort(port)
    \/ \E port \in StartPorts : SetDestPort(port)
    \/ \E port \in EndPorts : SetDestEndPort(port)
    \/ \E t \in Selecters : SetSourceSelecter(t)
    \/ \E t \in Selecters : SetDestSelecter(t)
    \/ CliAttributes

SpecTcp == Init /\ [][NextTcp]_vars

----------------------------------------------------------------------------
(* IcmpObject: every operation.                                            *)

NextIcmp ==
    \/ /\ cls = "none"
       /\ \E kw \in ForeignKw, name \in Names, type \in IcmpTypes, code \in IcmpCodes :
          IcmpInit(kw, name, type, code)
    \/ \E value \in IcmpTypes : SetIcmpType(value)
    \/ \E value \in IcmpCodes : SetIcmpCode(value)
    \/ \E name \in Names : SetName(name)
    \/ ReadName
    \/ GenerateName
    \/ CliDefinition
    \/ CliAttributes
    \/ CliFull

SpecIcmp == Init /\ [][NextIcmp]_vars

----------------------------------------------------------------------------
(* NetworkObject: every operation.                                         *)

NextNet ==
    \/ /\ cls = "none"
       /\ \E kw \in ForeignKw, ob_type \in ObjectTypes, ip \in Addresses,
          netmask \in Netmasks, description \in Descriptions, CIDR \in CIDRs,
          name \in Names, fqdn \in Fqdns, end_ip \in Addresses :
          NetInit(kw, ob_type, ip, netmask, description, CIDR, name, fqdn, end_ip)
    \/ \E fqdn \in Fqdns : NetInitFqdn(fqdn)
    \/ \E ip \in Addresses, end_ip \in Addresses : NetInitRange(ip, end_ip)
    \/ \E ip \in Addresses, netmask \in Netmasks, CIDR \in CIDRs :
          NetInitHostOrNet(ip, netmask, CIDR)
    \/ NetGenerateName
    \/ NetCliDefinition
    \/ NetCliAttributes
    \/ NetCliFull

SpecNet == Init /\ [][NextNet]_vars

----------------------------------------------------------------------------
(* Every variant and every operation, tried with a few inputs each.        *)

FewSelecters == {PyNone, PyEnum("SINGLE"), PyEnum("RANGE")}

FewStartPorts == {PyNone} \cup Ints({80, 65536})

FewEndPorts == {PyNone} \cup Ints({65535})

FewIcmpTypes == {PyNone, PyStr("echo"), PyInt(8)}

FewIcmpCodes == {PyNone} \cup Ints({40, 256})

NextService ==
    \/ /\ cls = "none"
       /\ \E c \in TcpClasses, kw \in ForeignKw, name \in Names,
             st \in FewSelecters, sp \in FewStartPorts, sep \in FewEndPorts,
             dt \in FewSelecters, dp \in FewStartPorts, dep \in FewEndPorts :
             TcpInit(c, kw, name, st, sp, sep, dt, dp, dep)
    \/ /\ cls = "none"
       /\ \E kw \in ForeignKw, name \in Names, type \in FewIcmpTypes, code \in FewIcmpCodes :
             IcmpInit(kw, name, type, code)
    \/ \E port \in FewStartPorts : SetSourcePort(port)
    \/ \E port \in FewEndPorts : SetSourceEndPort(port)
    \/ \E port \in FewStartPorts : SetDestPort(port)
    \/ \E port \in FewEndPorts : SetDestEndPort(port)
    \/ \E t \in FewSelecters : SetSourceSelecter(t)
    \/ \E t \in FewSelecters : SetDestSelecter(t)
    \/ \E value \in FewIcmpTypes : SetIcmpType(value)
    \/ \E value \in FewIcmpCodes : SetIcmpCode(value)
    \/ \E name \in Names : SetName(name)
    \/ ReadName
    \/ GenerateName
    \/ CliDefinition
    \/ CliAttributes
    \/ CliFull

Next == NextService \/ NextNet

Spec == Init /\ [][Next]_vars

----------------------------------------------------------------------------
(* Properties.                                                             *)

\* a symbolic ICMP type: a string that names a type, not a number
Symbolic(v) == v.k = "str" /\ v.s # "" /\ ~IsNumeric(v.s)

\* C1: an IcmpObject that has no name yet, a symbolic icmp_type t and an
\* icmp_code c in 1..255 answers cli_full() with exactly the three lines
\* 'object service SVC_ICMP_TYPE_<T>_CODE_<c>', ' service icmp <t> <c>', '!'.
C1_IcmpCliFull ==
    [][(/\ cls = "IcmpObject"
        /\ ~Truthy(self._name)
        /\ Symbolic(self._icmp_type)
        /\ self._icmp_code.k = "int" /\ self._icmp_code.n \in 1..255
        /\ call'.op = "cli_full")
       => /\ ret'.exc = ""
          /\ ret'.val = PyList
          /\ ret'.items =
               <<PyStr("object service SVC_ICMP_TYPE_" \o Upper(self._icmp_type.s)
                       \o "_CODE_" \o ToString(self._icmp_code.n)),
                 PyStr(" service icmp " \o self._icmp_type.s \o " "
                       \o ToString(self._icmp_code.n)),
                 PyStr("!")>>]_vars

\* the scenario of test_icmp_object_creation has run
C1_Witness ==
    /\ cls = "IcmpObject"
    /\ call.op = "cli_full"
    /\ self._icmp_type = PyStr("echo")
    /\ self._icmp_code = PyInt(40)
    /\ ret.items = <<PyStr("object service SVC_ICMP_TYPE_ECHO_CODE_40"),
                     PyStr(" service icmp echo 40"),
                     PyStr("!")>>

\* a valid ICMP type: a symbolic name, or a number in 0..255 given as an
\* integer or as a string of digits
ValidIcmpType(v) ==
    \/ Symbolic(v)
    \/ v.k = "int" /\ v.n \in 0..255
    \/ v.k = "str" /\ IsNumeric(v.s) /\ ParseDigits(v.s, 0) \in 0..255

\* C4: with a valid icmp_type and icmp_code unset, cli_attributes() returns
\* 'service icmp <t>' with no trailing code, and cli_full() succeeds.
C4_UnsetCodeRenders ==
    (/\ cls = "IcmpObject"
     /\ ValidIcmpType(self._icmp_type)
     /\ self._icmp_code = PyNone)
    => /\ call.op = "cli_attributes"
          => ret.exc = "" /\ ret.val = PyStr(" service icmp " \o Str(self._icmp_type))
       /\ call.op = "cli_full" => ret.exc = ""

\* C7: every number in 0..255, as an integer or a string of digits, is
\* accepted as icmp_type, and every number outside is refused as invalid:
\* IcmpObject(icmp_type=n) constructs for every integer n in 0..255, and its
\* name generation and cli_attributes() succeed.
C7_NumericTypes ==
    /\ (/\ call.op = "__init__"
        /\ call.on = "IcmpObject"
        /\ call.kw \subseteq IcmpInitParams
        /\ call.args[2].k = "int" \/ (call.args[2].k = "str" /\ IsNumeric(call.args[2].s))
        /\ call.args[3] = PyNone)
       => IF Int_(call.args[2]) \in 0..255
          THEN ret.exc = ""
          ELSE ret.exc = "ValueError: The given ICMP type is invalid"
    /\ (/\ cls = "IcmpObject"
        /\ self._icmp_type.k = "int" /\ self._icmp_type.n \in 0..255
        /\ call.op \in {"generate_name", "cli_attributes"})
       => ret.exc = ""

\* C2: cli_full() of an initialized NetworkObject is the list of text lines
\* 'object network <name>', the attribute line of cli_attributes(), a
\* ' description <text>' line exactly when description is non-empty, and '!'.
C2_NetCliFullLines ==
    (/\ cls = "NetworkObject"
     /\ call.op = "cli_full"
     /\ Truthy(self.type))
    => /\ ret.exc = ""
       /\ ret.items =
            <<PyStr("object network " \o Str(self.name)), Net_cli_attributes(self).val>>
            \o (IF Truthy(self.description)
                THEN <<PyStr(" description " \o self.description.s)>>
                ELSE <<>>)
            \o <<PyStr("!")>>
       /\ \A i \in 1..Len(ret.items) : ret.items[i].k = "str"

\* C3: with dest_port_selecter_type RANGE, dest_port s and dest_end_port e
\* both set, the line cli_attributes() returns holds the clause
\* 'destination range <s> <e>', and holds a 'source' clause only when
\* source_port_selecter_type is set.
C3_DestRangeClause ==
    (/\ cls \in TcpClasses
     /\ call.op = "cli_attributes"
     /\ self.dest_port_selecter_type = PyEnum("RANGE")
     /\ self._dest_port.k = "int"
     /\ self._dest_end_port.k = "int"
     /\ ret.exc = "")
    => /\ Contains(ret.val.s, " destination range " \o ToString(self._dest_port.n)
                              \o " " \o ToString(self._dest_end_port.n))
       /\ Contains(ret.val.s, " source ") => self.source_port_selecter_type # PyNone

\* the errors cli_attributes() raises for a port that is missing
MissingPortErrors ==
    {"AssertionError: Range starting or ending port not defined",
     "AssertionError: Source port not defined",
     "AssertionError: Destination port not defined"}

\* C5: when a side's selector type is RANGE and its start port or its end
\* port is unset, cli_attributes() fails with the missing-port error, after
\* any sequence of port and selector assignments.
C5_RangeNeedsBothPorts ==
    (/\ cls \in TcpClasses
     /\ call.op = "cli_attributes"
     /\ \/ /\ self.source_port_selecter_type = PyEnum("RANGE")
           /\ PyNone \in {self._source_port, self._source_end_port}
        \/ /\ self.dest_port_selecter_type = PyEnum("RANGE")
           /\ PyNone \in {self._dest_port, self._dest_end_port})
    => ret.exc \in MissingPortErrors

\* the attribute each port setter stores into
PortField ==
    [t \in {"source_port.setter", "source_end_port.setter",
            "dest_port.setter", "dest_end_port.setter"} |->
        CASE t = "source_port.setter"     -> "_source_port"
          [] t = "source_end_port.setter" -> "_source_end_port"
          [] t = "dest_port.setter"       -> "_dest_port"
          [] OTHER                        -> "_dest_end_port"]

\* C6: each of the four port setters stores None or an integer in 0..65535
\* and succeeds; given an integer outside it fails with the invalid-port
\* error and leaves that port and every other attribute as they were.
C6_PortSetters ==
    [][call'.op \in DOMAIN PortField
       => LET port == call'.args[1]
          IN  IF port = PyNone \/ (port.k = "int" /\ port.n \in 0..65535)
              THEN /\ ret'.exc = ""
                   /\ self' = [self EXCEPT ![PortField[call'.op]] = port]
                   /\ cls' = cls
              ELSE /\ ret'.exc = "ValueError: Port value is out of range"
                   /\ self' = self
                   /\ cls' = cls]_vars

\* a setter has refused a port while the port held the upper limit
C6_Witness ==
    /\ cls \in TcpClasses
    /\ call.op = "dest_end_port.setter"
    /\ call.args = <<PyInt(65536)>>
    /\ ret.exc = "ValueError: Port value is out of range"
    /\ self._dest_end_port = PyInt(65535)

UnexpectedKeyword == "TypeError: __init__() got an unexpected keyword argument"

\* C8 as stated: TcpObject called with icmp_type or icmp_code does not raise
\* at construction.
C8_ForeignKeywordsInert ==
    (/\ call.op = "__init__"
     /\ call.on \in TcpClasses
     /\ call.kw \cap {"icmp_type", "icmp_code"} # {})
    => ret.exc # UnexpectedKeyword

\* C8, amended: TcpObject called with icmp_type or icmp_code raises at
\* construction and leaves no object; and every line a TcpObject or
\* UdpObject renders follows the TCP/UDP template, never the ICMP one.
C8_ForeignKeywordsRefused ==
    /\ (/\ call.op = "__init__"
        /\ call.on \in TcpClasses
        /\ call.kw \cap {"icmp_type", "icmp_code"} # {})
       => /\ ret.exc = UnexpectedKeyword
          /\ cls = "none"
          /\ self = NoObject
    /\ (/\ cls \in TcpClasses
        /\ call.op = "cli_attributes"
        /\ ret.exc = "")
       => /\ SubSeq(ret.val.s, 1, 11) = "service " \o _OBJECT_TYPE(cls)
          /\ ~Contains(ret.val.s, "icmp")

\* the call of test_xfail_incorrect_attributes has been made
C8_Witness ==
    /\ call.op = "__init__"
    /\ call.on = "TcpObject"
    /\ call.kw = {"icmp_type", "icmp_code"}
    /\ ret.exc = UnexpectedKeyword
    /\ cls = "none"

\* C9: for every variant, the line cli_attributes() returns begins with one
\* space before its first token, and the line cli_definition() returns
\* begins with none.
C9_LeadingSpace ==
    /\ (call.op = "cli_attributes" /\ ret.exc = "")
       => /\ Len(ret.val.s) >= 2
          /\ SubSeq(ret.val.s, 1, 1) = " "
          /\ SubSeq(ret.val.s, 2, 2) # " "
    /\ (call.op = "cli_definition" /\ ret.exc = "")
       => SubSeq(ret.val.s, 1, 1) # " "

NameReads == {"name", "cli_definition", "cli_full"}

\* C10: on a service object, a read of name that finds no name computes one
\* and caches it; from then on every read returns the cached string and
\* cli_definition() renders it, whatever the setters assign to ports,
\* selector types, ICMP type or code, as long as generate_name() is not
\* called directly and name is not reassigned.  A non-empty name given
\* explicitly is returned the same way.
C10_NameCached ==
    [][(/\ cls \in ServiceClasses
        /\ cls' = cls
        /\ call'.op \notin {"generate_name", "name.setter"})
       => /\ Truthy(self._name)
             => /\ self'._name = self._name
                /\ call'.op = "name" => (ret'.exc = "" /\ ret'.val = self._name)
                /\ call'.op = "cli_definition"
                   => (ret'.exc = "" /\ ret'.val = PyStr("object service " \o self._name.s))
                /\ (call'.op = "cli_full" /\ ret'.exc = "")
                   => ret'.items[1] = PyStr("object service " \o self._name.s)
          /\ (~Truthy(self._name) /\ call'.op \in NameReads /\ ret'.exc = "")
             => /\ Truthy(self'._name)
                /\ self'._name = Svc_generate_name(cls, self).val
                /\ call'.op = "name" => ret'.val = self'._name
          /\ (~Truthy(self._name) /\ call'.op \notin NameReads)
             => self'._name = self._name]_vars

\* a read has returned a generated name that the attributes, changed since,
\* would no longer generate
C10_Witness ==
    /\ cls \in ServiceClasses
    /\ call.op = "name"
    /\ ret.exc = ""
    /\ ret.val = self._name
    /\ self._name # PyStr("Stu")
    /\ Svc_generate_name(cls, self).exc = ""
    /\ Svc_generate_name(cls, self).val # self._name

\* the selector types that take one port
SinglePortTypes ==
    {PyEnum(m) : m \in {"SINGLE", "LESS_THAN", "GREATER_THAN", "NOT_EQUALS"}}

\* a side with no selector, or a one-port selector whose port is set
SideComplete(sel, port) ==
    sel = PyNone \/ (sel \in SinglePortTypes /\ port.k = "int" /\ port.n \in 0..65535)

\* the clause a one-port side renders, empty for a side with no selector
SideClause(word, sel, port) ==
    IF sel = PyNone THEN ""
    ELSE " " \o word \o " " \o EnumValue(sel) \o " " \o ToString(port.n)

\* C11: on a TcpObject or UdpObject, a side whose selector type is SINGLE,
\* LESS_THAN, GREATER_THAN or NOT_EQUALS makes cli_attributes() fail with the
\* missing-port error when its port is unset, and only then: when every side
\* that has a selector has one of these types and a port in 0..65535, 0
\* included, cli_attributes() returns a line holding '<source|destination>
\* <eq|lt|gt|neq> <port>' for each such side.
C11_SinglePortClause ==
    (/\ cls \in TcpClasses
     /\ call.op = "cli_attributes")
    => LET st == self.source_port_selecter_type
           dt == self.dest_port_selecter_type
       IN  /\ (\/ st \in SinglePortTypes /\ self._source_port = PyNone
               \/ dt \in SinglePortTypes /\ self._dest_port = PyNone)
              => ret.exc \in MissingPortErrors
           /\ (/\ SideComplete(st, self._source_port)
               /\ SideComplete(dt, self._dest_port))
              => /\ ret.exc = ""
                 /\ Contains(ret.val.s, SideClause("source", st, self._source_port)
                                        \o SideClause("destination", dt, self._dest_port))

============================================================================
